---- MODULE Spec2Model ----
(***************************************************************************)
(* A model of tower-steer's Steer combinator (tower-steer/src/lib.rs).     *)
(*                                                                         *)
(* Steer owns an ordered list of services `cls`, a parallel vector of      *)
(* readiness flags `ready`, and a routing policy `router`.  Its            *)
(* Service::poll_ready polls, in index order, every service whose flag is  *)
(* false; its Service::call asks the router for an index, asserts that     *)
(* the flag at that index is set, calls that service and clears the flag.  *)
(*                                                                         *)
(* The wrapped services are external: what a service answers to a          *)
(* readiness poll is an input of the poll_ready action.  Vectors are       *)
(* functions over 0..n-1 so that indices are the source's indices.         *)
(*                                                                         *)
(* The module also models the Timeout middleware's ResponseFuture          *)
(* (tower/src/timeout/future.rs): a wrapped future `response` raced        *)
(* against a timer `sleep`, under the specification SpecTimeout.           *)
(***************************************************************************)
EXTENDS Integers, Sequences, FiniteSets, TLC

\* ---------------------------------------------------------------- bounds
MaxHandlers == 2        \* Steer::new is tried with 0..MaxHandlers services
MaxReq      == 1        \* requests are the numbers 0..MaxReq
MaxCalls    == 2        \* at most MaxCalls requests are dispatched in a run
MaxTime     == 3        \* the clock of the timeout model runs over 0..MaxTime

Requests == 0..MaxReq
\* Two distinguishable values of the services' error type StdError.
Errors   == {"e1", "e2"}

\* ------------------------------------------------- Poll<Result<(), E>>
Pending     == <<"Pending">>
ReadyOk     == <<"Ready", "Ok">>
ReadyErr(e) == <<"Ready", "Err", e>>

IsErr(p) == Len(p) = 3

\* What a wrapped service's poll_ready can answer.
PollOutcomes == {Pending, ReadyOk} \cup {ReadyErr(e) : e \in Errors}

\* ------------------------------------------------ outcomes of Steer::call
\* The boxed future of service k's call on request r.
Future(k, r) == <<"Future", k, r>>
\* self.ready[idx] / self.cls[idx] with idx >= len
PanicIndex   == <<"Panic", "index out of bounds">>
\* assert!(*ready)
PanicAssert  == <<"Panic", "assertion failed: *ready">>

IsPanic(r) == r[1] = "Panic"

\* ghost value: the service has not been polled since its last call
NotPolled == <<"NotPolled">>
NoValue   == -1

VARIABLES
    cls,        \* Steer.cls: index -> service (MyService(id))
    ready,      \* Steer.ready: index -> BOOLEAN
    router,     \* Steer.router: the Picker, a function of the request
    svcLog,     \* per service id, the requests its call() has received
    lastPoll,   \* ghost: per index, latest poll answer since the last call
    reported,   \* ghost: indices whose service has ever answered ready
    gate,       \* ghost: "none" no Ready yet, "ready" Ready and no request
                \*        dispatched since, "used" a request was dispatched
                \*        since the last Ready
    sent,       \* ghost: the requests dispatched so far, in order
    last        \* ghost: the latest operation on the Steer and its result

\* State of the timeout model.
VARIABLES
    now,        \* the clock
    rf,         \* ResponseFuture { response, sleep }
    tout,       \* what the latest ResponseFuture::poll returned
    tpoll,      \* ghost: the latest poll (time, branch taken, sleep polled)
    polledAt    \* ghost: the times at which the wrapper has been polled

svars == <<cls, ready, router, svcLog, lastPoll, reported, gate, sent, last>>
tvars == <<now, rf, tout, tpoll, polledAt>>
vars  == <<cls, ready, router, svcLog, lastPoll, reported, gate, sent, last,
           now, rf, tout, tpoll, polledAt>>

\* No ResponseFuture exists while the Steer is exercised.
TimeoutIdle ==
    /\ now = 0
    /\ rf = [response |-> NoValue, sleep |-> NoValue]
    /\ tout = NotPolled
    /\ tpoll = [polled |-> FALSE, at |-> NoValue, via |-> "none",
                sleepPolled |-> FALSE]
    /\ polledAt = {}

\* Number of services and the index space of the Steer.
N        == Cardinality(DOMAIN cls)
Handlers == DOMAIN cls

\* ------------------------------------------------------------ Steer::new
\* Variant of the constructor: the flags start set.
NewReadyAllTrue(c) == [i \in DOMAIN c |-> TRUE]

\* let ready = cls.iter().map(|_| false).collect()
NewReady(c) == [i \in DOMAIN c |-> FALSE]

\* The Picker implemented by a closure F: Fn(&Req, &[S]) -> usize.  The
\* index it returns is not constrained: n is the out-of-range index.
Pickers(n) == [Requests -> 0..n]

Init ==
    \E n \in 0..MaxHandlers :
        /\ cls = [i \in 0..(n-1) |-> i]
        /\ ready = NewReady(cls)
        /\ router \in Pickers(n)
        /\ svcLog = [i \in 0..(n-1) |-> <<>>]
        /\ lastPoll = [i \in 0..(n-1) |-> NotPolled]
        /\ reported = {}
        /\ gate = "none"
        /\ sent = <<>>
        /\ last = [op |-> "new", res |-> NoValue, trace |-> <<>>,
                   req |-> NoValue, idx |-> NoValue]
        /\ TimeoutIdle

\* ------------------------------------------------- Service::poll_ready
\* `?` converts the error with From; From<StdError> for StdError is the
\* reflexive impl.
FromErr(e) == e

\* Indices polled in a trace.
Polled(tr) == {tr[j][1] : j \in DOMAIN tr}

\* Variants of the poll_ready loop that differ from the source by one slip.
\* The flag is set before the service is polled.
RECURSIVE PollLoopFlagFirst(_, _, _, _)
PollLoopFlagFirst(i, rdy, tr, outs) ==
    IF i \notin DOMAIN rdy
    THEN [res |-> ReadyOk, ready |-> rdy, trace |-> tr]
    ELSE IF rdy[i]
    THEN PollLoopFlagFirst(i + 1, rdy, tr, outs)
    ELSE LET o    == outs[i]
             tr2  == Append(tr, <<i, o>>)
             rdy2 == [rdy EXCEPT ![i] = TRUE]
         IN  IF o = Pending
             THEN [res |-> Pending, ready |-> rdy2, trace |-> tr2]
             ELSE IF IsErr(o)
             THEN [res |-> ReadyErr(FromErr(o[3])), ready |-> rdy2, trace |-> tr2]
             ELSE PollLoopFlagFirst(i + 1, rdy2, tr2, outs)

\* A pending service is passed over instead of suspending the check.
RECURSIVE PollLoopSkipPending(_, _, _, _)
PollLoopSkipPending(i, rdy, tr, outs) ==
    IF i \notin DOMAIN rdy
    THEN [res |-> ReadyOk, ready |-> rdy, trace |-> tr]
    ELSE IF rdy[i]
    THEN PollLoopSkipPending(i + 1, rdy, tr, outs)
    ELSE LET o   == outs[i]
             tr2 == Append(tr, <<i, o>>)
         IN  IF o = Pending
             THEN PollLoopSkipPending(i + 1, rdy, tr2, outs)
             ELSE IF IsErr(o)
             THEN [res |-> ReadyErr(FromErr(o[3])), ready |-> rdy, trace |-> tr2]
             ELSE PollLoopSkipPending(i + 1, [rdy EXCEPT ![i] = TRUE], tr2, outs)

\* The check is satisfied by the first ready service instead of by all.
RECURSIVE PollLoopAnyReady(_, _, _, _)
PollLoopAnyReady(i, rdy, tr, outs) ==
    IF i \notin DOMAIN rdy
    THEN [res |-> IF DOMAIN rdy = {} THEN ReadyOk ELSE Pending,
          ready |-> rdy, trace |-> tr]
    ELSE IF rdy[i]
    THEN [res |-> ReadyOk, ready |-> rdy, trace |-> tr]
    ELSE LET o   == outs[i]
             tr2 == Append(tr, <<i, o>>)
         IN  IF o = Pending
             THEN PollLoopAnyReady(i + 1, rdy, tr2, outs)
             ELSE IF IsErr(o)
             THEN [res |-> ReadyErr(FromErr(o[3])), ready |-> rdy, trace |-> tr2]
             ELSE [res |-> ReadyOk, ready |-> [rdy EXCEPT ![i] = TRUE],
                   trace |-> tr2]

\* Every service is polled on every check, whatever its flag says.
RECURSIVE PollLoopNoSkip(_, _, _, _)
PollLoopNoSkip(i, rdy, tr, outs) ==
    IF i \notin DOMAIN rdy
    THEN [res |-> ReadyOk, ready |-> rdy, trace |-> tr]
    ELSE LET o   == outs[i]
             tr2 == Append(tr, <<i, o>>)
         IN  IF o = Pending
             THEN [res |-> Pending, ready |-> rdy, trace |-> tr2]
             ELSE IF IsErr(o)
             THEN [res |-> ReadyErr(FromErr(o[3])), ready |-> rdy, trace |-> tr2]
             ELSE PollLoopNoSkip(i + 1, [rdy EXCEPT ![i] = TRUE], tr2, outs)

\* A failed poll is remembered but the remaining services are still polled.
RECURSIVE PollLoopErrContinue(_, _, _, _)
PollLoopErrContinue(i, rdy, tr, outs) ==
    IF i \notin DOMAIN rdy
    THEN [res |-> ReadyOk, ready |-> rdy, trace |-> tr]
    ELSE IF rdy[i]
    THEN PollLoopErrContinue(i + 1, rdy, tr, outs)
    ELSE LET o   == outs[i]
             tr2 == Append(tr, <<i, o>>)
         IN  IF o = Pending
             THEN [res |-> Pending, ready |-> rdy, trace |-> tr2]
             ELSE IF IsErr(o)
             THEN LET rest == PollLoopErrContinue(i + 1, rdy, tr2, outs)
                  IN  [res |-> ReadyErr(FromErr(o[3])), ready |-> rest.ready,
                       trace |-> rest.trace]
             ELSE PollLoopErrContinue(i + 1, [rdy EXCEPT ![i] = TRUE], tr2, outs)


\* The flags set earlier in the call are dropped when a service is pending.
RECURSIVE PollLoopResetOnPending(_, _, _, _)
PollLoopResetOnPending(i, rdy, tr, outs) ==
    IF i \notin DOMAIN rdy
    THEN [res |-> ReadyOk, ready |-> rdy, trace |-> tr]
    ELSE IF rdy[i]
    THEN PollLoopResetOnPending(i + 1, rdy, tr, outs)
    ELSE LET o   == outs[i]
             tr2 == Append(tr, <<i, o>>)
         IN  IF o = Pending
             THEN [res |-> Pending,
                   ready |-> [k \in DOMAIN rdy |-> rdy[k] /\ k \notin Polled(tr)],
                   trace |-> tr2]
             ELSE IF IsErr(o)
             THEN [res |-> ReadyErr(FromErr(o[3])), ready |-> rdy, trace |-> tr2]
             ELSE PollLoopResetOnPending(i + 1, [rdy EXCEPT ![i] = TRUE], tr2, outs)

\* Every flag is cleared when a service's poll fails.
RECURSIVE PollLoopResetOnErr(_, _, _, _)
PollLoopResetOnErr(i, rdy, tr, outs) ==
    IF i \notin DOMAIN rdy
    THEN [res |-> ReadyOk, ready |-> rdy, trace |-> tr]
    ELSE IF rdy[i]
    THEN PollLoopResetOnErr(i + 1, rdy, tr, outs)
    ELSE LET o   == outs[i]
             tr2 == Append(tr, <<i, o>>)
         IN  IF o = Pending
             THEN [res |-> Pending, ready |-> rdy, trace |-> tr2]
             ELSE IF IsErr(o)
             THEN [res |-> ReadyErr(FromErr(o[3])),
                   ready |-> [k \in DOMAIN rdy |-> FALSE], trace |-> tr2]
             ELSE PollLoopResetOnErr(i + 1, [rdy EXCEPT ![i] = TRUE], tr2, outs)

\* A check that polled nothing is reported as pending.
RECURSIVE PollLoopEmptyPending(_, _, _, _)
PollLoopEmptyPending(i, rdy, tr, outs) ==
    IF i \notin DOMAIN rdy
    THEN [res |-> IF tr = <<>> THEN Pending ELSE ReadyOk,
          ready |-> rdy, trace |-> tr]
    ELSE IF rdy[i]
    THEN PollLoopEmptyPending(i + 1, rdy, tr, outs)
    ELSE LET o   == outs[i]
             tr2 == Append(tr, <<i, o>>)
         IN  IF o = Pending
             THEN [res |-> Pending, ready |-> rdy, trace |-> tr2]
             ELSE IF IsErr(o)
             THEN [res |-> ReadyErr(FromErr(o[3])), ready |-> rdy, trace |-> tr2]
             ELSE PollLoopEmptyPending(i + 1, [rdy EXCEPT ![i] = TRUE], tr2, outs)

\* The flag of a service that answered ready is not stored.
RECURSIVE PollLoopNoLatch(_, _, _, _)
PollLoopNoLatch(i, rdy, tr, outs) ==
    IF i \notin DOMAIN rdy
    THEN [res |-> ReadyOk, ready |-> rdy, trace |-> tr]
    ELSE IF rdy[i]
    THEN PollLoopNoLatch(i + 1, rdy, tr, outs)
    ELSE LET o   == outs[i]
             tr2 == Append(tr, <<i, o>>)
         IN  IF o = Pending
             THEN [res |-> Pending, ready |-> rdy, trace |-> tr2]
             ELSE IF IsErr(o)
             THEN [res |-> ReadyErr(FromErr(o[3])), ready |-> rdy, trace |-> tr2]
             ELSE PollLoopNoLatch(i + 1, rdy, tr2, outs)

\* The for loop of poll_ready from index i on.  rdy is the flag vector so
\* far, tr the polls made so far (index, answer), outs[i] the answer
\* service i gives if it is polled in this call.
RECURSIVE PollLoop(_, _, _, _)
PollLoop(i, rdy, tr, outs) ==
    IF i \notin DOMAIN rdy
    THEN [res |-> ReadyOk, ready |-> rdy, trace |-> tr]
    ELSE IF rdy[i]
    THEN PollLoop(i + 1, rdy, tr, outs)
    ELSE LET o   == outs[i]
             tr2 == Append(tr, <<i, o>>)
         IN  IF o = Pending
             THEN [res |-> Pending, ready |-> rdy, trace |-> tr2]
             ELSE IF IsErr(o)
             THEN [res |-> ReadyErr(FromErr(o[3])), ready |-> rdy, trace |-> tr2]
             ELSE PollLoop(i + 1, [rdy EXCEPT ![i] = TRUE], tr2, outs)

\* poll_ready when service i, if polled, answers outs[i].
PollReadyWith(outs) ==
    LET r == PollLoop(0, ready, <<>>, outs) IN
    \* a service that is not polled in this call gives no answer
    /\ \A i \in Handlers \ Polled(r.trace) : outs[i] = Pending
    /\ ready' = r.ready
    /\ lastPoll' = [i \in Handlers |->
                      IF i \in Polled(r.trace) THEN outs[i] ELSE lastPoll[i]]
    /\ reported' = reported \cup
                      {i \in Polled(r.trace) : outs[i] = ReadyOk}
    /\ gate' = IF r.res = ReadyOk THEN "ready" ELSE gate
    /\ last' = [op |-> "poll_ready", res |-> r.res, trace |-> r.trace,
                req |-> NoValue, idx |-> NoValue]
    /\ UNCHANGED <<cls, router, svcLog, sent>>
    /\ UNCHANGED tvars

PollReady == \E outs \in [Handlers -> PollOutcomes] : PollReadyWith(outs)

\* ------------------------------------------------------- Service::call
\* self.router.pick(&req, &self.cls[..])
Pick(req) == router[req]

\* Variants of call that differ from the source by one slip.
\* The readiness assertion is missing.
CallResultNoAssert(idx, req, rdy) ==
    IF idx \notin DOMAIN rdy THEN PanicIndex
    ELSE Future(cls[idx], req)

\* The picked index is wrapped into range instead of being used as is.
CallResultWrap(idx, req, rdy) ==
    LET k == IF DOMAIN rdy = {} THEN idx ELSE idx % Cardinality(DOMAIN rdy)
    IN  IF k \notin DOMAIN rdy THEN PanicIndex
        ELSE IF ~rdy[k] THEN PanicAssert
        ELSE Future(cls[k], req)

\* The request goes to the first service instead of the picked one.
CallResultFirstSvc(idx, req, rdy) ==
    IF idx \notin DOMAIN rdy THEN PanicIndex
    ELSE IF ~rdy[idx] THEN PanicAssert
    ELSE Future(cls[0], req)

\* The assertion looks for any set flag instead of the flag at the index.
CallResultAnyReady(idx, req, rdy) ==
    IF idx \notin DOMAIN rdy THEN PanicIndex
    ELSE IF ~(\E k \in DOMAIN rdy : rdy[k]) THEN PanicAssert
    ELSE Future(cls[idx], req)

\* What call returns or how it dies, given the picked index.
CallResult(idx, req, rdy) ==
    IF idx \notin DOMAIN rdy THEN PanicIndex
    ELSE IF ~rdy[idx] THEN PanicAssert
    ELSE Future(cls[idx], req)

\* Variants of the flag reset: every flag is cleared; no flag is cleared.
ClearAll(rdy, idx) == [i \in DOMAIN rdy |-> FALSE]

ClearNone(rdy, idx) == rdy

\* *ready = false
ClearReady(rdy, idx) == [rdy EXCEPT ![idx] = FALSE]

Call ==
    \E req \in Requests :
        LET idx == Pick(req)
            res == CallResult(idx, req, ready)
        IN
        /\ Len(sent) < MaxCalls
        /\ IF IsPanic(res)
           THEN UNCHANGED <<ready, svcLog, lastPoll, sent>>
           ELSE /\ svcLog' = [svcLog EXCEPT ![res[2]] = Append(@, req)]
                /\ ready' = ClearReady(ready, idx)
                /\ lastPoll' = [lastPoll EXCEPT ![idx] = NotPolled]
                /\ sent' = Append(sent, req)
        /\ gate' = IF gate = "ready" /\ ~IsPanic(res) THEN "used" ELSE gate
        /\ last' = [op |-> "call", res |-> res, trace |-> <<>>,
                    req |-> req, idx |-> idx]
        /\ UNCHANGED <<cls, router, reported>>
        /\ UNCHANGED tvars

Next == PollReady \/ Call

Spec == Init /\ [][Next]_vars

\* ------------------------------------------- the caller keeps polling
\* poll_ready when no service's poll fails.
PollNoFail ==
    \E outs \in [Handlers -> {Pending, ReadyOk}] : PollReadyWith(outs)

\* A poll_ready in which the first service polled answers ready.
FirstAnswersReady ==
    /\ PollNoFail
    /\ last'.trace # <<>>
    /\ last'.trace[1][2] = ReadyOk

NextLive == PollNoFail \/ Call

\* The caller keeps calling poll_ready, and the service that every
\* poll_ready polls first, the lowest one whose flag is false, does not
\* answer pending forever.
SpecLive ==
    /\ Init /\ [][NextLive]_vars
    /\ WF_vars(PollNoFail)
    /\ WF_vars(FirstAnswersReady)

TypeOK ==
    /\ ready \in [Handlers -> BOOLEAN]
    /\ DOMAIN svcLog = Handlers
    /\ gate \in {"none", "ready", "used"}
    /\ Len(sent) <= MaxCalls
\* ================================================ timeout::ResponseFuture
\* The wrapper's error type Error holds any error; Elapsed(()).into() is
\* the value the wrapper builds when the timer fires.
ErrorOf(x)   == <<"Error", x>>
ElapsedError == ErrorOf("Elapsed")

\* Error values of the wrapped future's type E.  E is any type with
\* Into<Error>: a type of its own (tag "E"), or Error itself, as when the
\* wrapped future is another ResponseFuture, whose errors include Elapsed.
OpErrors == {<<"E", "e1">>, <<"E", "e2">>, ErrorOf("e1"), ElapsedError}

\* Variant of the conversion: every error of the wrapped future is reported
\* as elapsed.
IntoErrorAllElapsed(e) == ElapsedError

\* Into::into from E to Error: the reflexive conversion for Error itself,
\* boxing for any other type.
IntoError(e) == IF e[1] = "Error" THEN e ELSE ErrorOf(e[2])

\* Result<T, E> of the wrapped future and v.map_err(Into::into)
OpOk         == <<"Ok", "resp">>
OpErr(e)     == <<"Err", e>>
OpResults    == {OpOk} \cup {OpErr(e) : e \in OpErrors}
MapErr(v)    == IF v[1] = "Err" THEN OpErr(IntoError(v[2])) ELSE v

\* Poll::Ready(v) of the wrapper
Ready(v) == <<"Ready", v>>

\* this.response.poll(cx): the wrapped future completes at time f.at with
\* f.res.
PollResponse(f, t) == IF t >= f.at THEN Ready(f.res) ELSE Pending

\* this.sleep.poll(cx): the Delay fires at its deadline.
PollSleep(d, t) == IF t >= d.deadline THEN Ready("()") ELSE Pending

\* Variants of poll that differ from the source by one slip.
\* The timer is polled on every poll and wins when it has fired.
PollTimerWins(f, t) ==
    LET r == PollResponse(f.response, t)
        z == PollSleep(f.sleep, t)
    IN  IF z # Pending
        THEN [out |-> Ready(OpErr(ElapsedError)), via |-> "sleep",
              sleepPolled |-> TRUE]
        ELSE IF r # Pending
        THEN [out |-> Ready(MapErr(r[2])), via |-> "response",
              sleepPolled |-> TRUE]
        ELSE [out |-> Pending, via |-> "none", sleepPolled |-> TRUE]

\* The timer is polled before the wrapped future.
PollTimerFirst(f, t) ==
    LET z == PollSleep(f.sleep, t) IN
    IF z # Pending
    THEN [out |-> Ready(OpErr(ElapsedError)), via |-> "sleep",
          sleepPolled |-> TRUE]
    ELSE LET r == PollResponse(f.response, t) IN
         IF r # Pending
         THEN [out |-> Ready(MapErr(r[2])), via |-> "response",
               sleepPolled |-> TRUE]
         ELSE [out |-> Pending, via |-> "none", sleepPolled |-> TRUE]

\* The two arms of the match on the timer are exchanged.
PollSwappedArms(f, t) ==
    LET r == PollResponse(f.response, t) IN
    IF r # Pending
    THEN [out |-> Ready(MapErr(r[2])), via |-> "response",
          sleepPolled |-> FALSE]
    ELSE LET z == PollSleep(f.sleep, t) IN
         IF z = Pending
         THEN [out |-> Ready(OpErr(ElapsedError)), via |-> "sleep",
               sleepPolled |-> TRUE]
         ELSE [out |-> Pending, via |-> "none", sleepPolled |-> TRUE]

\* ResponseFuture::poll at time t: the output, the branch that produced it
\* and whether the timer was polled.
ResponseFuturePoll(f, t) ==
    LET r == PollResponse(f.response, t) IN
    IF r # Pending
    THEN [out |-> Ready(MapErr(r[2])), via |-> "response",
          sleepPolled |-> FALSE]
    ELSE LET z == PollSleep(f.sleep, t) IN
         IF z = Pending
         THEN [out |-> Pending, via |-> "none", sleepPolled |-> TRUE]
         ELSE [out |-> Ready(OpErr(ElapsedError)), via |-> "sleep",
               sleepPolled |-> TRUE]

\* A Steer over no services, left alone while the wrapper is exercised.
SteerIdle ==
    /\ cls = <<>>
    /\ ready = NewReady(cls)
    /\ router = [r \in Requests |-> 0]
    /\ svcLog = <<>>
    /\ lastPoll = <<>>
    /\ reported = {}
    /\ gate = "none"
    /\ sent = <<>>
    /\ last = [op |-> "new", res |-> NoValue, trace |-> <<>>,
               req |-> NoValue, idx |-> NoValue]

\* ResponseFuture::new(response, sleep).  A time of MaxTime + 1 is a
\* completion or a deadline beyond the horizon of the clock.
InitTimeout ==
    /\ SteerIdle
    /\ now = 0
    /\ \E tOp \in 0..(MaxTime + 1), tDeadline \in 0..(MaxTime + 1),
          res \in OpResults :
           rf = [response |-> [at |-> tOp, res |-> res],
                 sleep |-> [deadline |-> tDeadline]]
    /\ tout = NotPolled
    /\ tpoll = [polled |-> FALSE, at |-> NoValue, via |-> "none",
                sleepPolled |-> FALSE]
    /\ polledAt = {}

Resolved == tout \notin {NotPolled, Pending}

\* Time passes.
Tick ==
    /\ now < MaxTime
    /\ now' = now + 1
    /\ UNCHANGED <<rf, tout, tpoll, polledAt>>
    /\ UNCHANGED svars

\* The executor polls the wrapper; a future is not polled again once it
\* has completed.
PollFuture ==
    /\ ~Resolved
    /\ LET p == ResponseFuturePoll(rf, now) IN
       /\ tout' = p.out
       /\ tpoll' = [polled |-> TRUE, at |-> now, via |-> p.via,
                    sleepPolled |-> p.sleepPolled]
    /\ polledAt' = polledAt \cup {now}
    /\ UNCHANGED <<now, rf>>
    /\ UNCHANGED svars

NextTimeout == Tick \/ PollFuture

SpecTimeout == InitTimeout /\ [][NextTimeout]_vars

\* ================================================================ claims
\* A step that ends with `last` describing a call / a poll_ready.  A step
\* that changes some variable and leaves last.op = "call" is a Call step,
\* and likewise for poll_ready.
FailingPolls(tr) == {j \in DOMAIN tr : IsErr(tr[j][2])}
ConstPolicy(k) == \A r \in Requests : router[r] = k
RoutedTo(i) == LET Test(r) == router[r] = i IN SelectSeq(sent, Test)

\* C1: a poll_ready returns Ready(Ok) if and only if, for every handler, the
\* most recent readiness poll of that handler since its last invocation (or
\* since construction) reported ready.
C1_ReadyIffAllPolledReady ==
    last.op = "poll_ready" =>
        (last.res = ReadyOk <=> \A i \in Handlers : lastPoll[i] = ReadyOk)

\* Witness C1: a poll_ready returned Ready(Ok) over two or more handlers
\* after a request had already been dispatched.
C1_Witness ==
    /\ last.op = "poll_ready" /\ last.res = ReadyOk
    /\ N >= 2 /\ sent # <<>> /\ last.trace # <<>>

\* C2: handler i's call is executed only when handler i has been polled and
\* reported ready since its previous invocation (or since construction).
C2_InvokedOnlyAfterFreshReady ==
    [][\A i \in Handlers :
          svcLog'[cls[i]] # svcLog[cls[i]] => lastPoll[i] = ReadyOk]_vars

\* Witness C2: some handler has been invoked twice.
C2_Witness == \E i \in Handlers : Len(svcLog[cls[i]]) >= 2

\* C3: if poll_ready has returned Ready(Ok) and no call has been dispatched
\* since, a call whose policy returns any in-range index passes the assertion and
\* dispatches the request to the handler at that index.
C3_CallAfterReadyDispatches ==
    [][(gate = "ready" /\ last'.op = "call" /\ last'.idx \in Handlers) =>
          /\ last'.res = Future(cls[last'.idx], last'.req)
          /\ svcLog'[cls[last'.idx]] =
                 Append(svcLog[cls[last'.idx]], last'.req)]_vars

\* Witness C3: the first request was dispatched right after a Ready(Ok):
\* every handler but the chosen one is still flagged.
C3_Witness ==
    /\ gate = "used" /\ last.op = "call" /\ ~IsPanic(last.res)
    /\ N >= 2 /\ Len(sent) = 1
    /\ \A i \in Handlers \ {last.idx} : ready[i]

\* C4 as claimed: every call issued with another, dispatched, call between
\* it and the last Ready(Ok) from poll_ready panics instead of dispatching.
C4_Original ==
    [][(gate = "used" /\ last'.op = "call") => IsPanic(last'.res)]_vars

\* C4 as amended: a call issued with another call between it and the last
\* Ready(Ok) panics exactly when the policy's index is out of range or the
\* flag at that index is false; when the flag at the index is true the
\* request is dispatched to that handler.
C4_PanicsIffFlagFalse ==
    [][(gate = "used" /\ last'.op = "call") =>
          /\ IsPanic(last'.res) <=>
                 (last'.idx \notin Handlers \/ ~ready[last'.idx])
          /\ ~IsPanic(last'.res) =>
                 last'.res = Future(cls[last'.idx], last'.req)]_vars

\* Witness C4: a call issued after another call since the last Ready(Ok)
\* died on the readiness assertion.
C4_Witness ==
    /\ gate = "used" /\ last.op = "call" /\ last.res = PanicAssert
    /\ sent # <<>>

\* C5: a successful call routed to index k sets flag k to false and leaves
\* every other flag, and the handler set, unchanged.
C5_CallClearsOnlyChosenFlag ==
    [][(last'.op = "call" /\ ~IsPanic(last'.res)) =>
          /\ ~ready'[last'.idx]
          /\ \A j \in Handlers \ {last'.idx} : ready'[j] = ready[j]
          /\ DOMAIN ready' = DOMAIN ready
          /\ cls' = cls]_vars

\* Witness C5: a request was dispatched and another handler is still
\* flagged ready.
C5_Witness ==
    /\ last.op = "call" /\ ~IsPanic(last.res)
    /\ \E j \in Handlers \ {last.idx} : ready[j]

C7_OutOfRangePanics ==
    [][(last'.op = "call" /\ last'.idx \notin Handlers) =>
          /\ last'.res = PanicIndex
          /\ UNCHANGED <<ready, svcLog, cls, sent>>]_vars

\* Witness C7: a call died on an out-of-range index while some handler was
\* flagged ready.
C7_Witness ==
    /\ last.op = "call" /\ last.res = PanicIndex /\ last.idx >= N
    /\ \E i \in Handlers : ready[i]

\* C8: if a handler's readiness poll fails during poll_ready, poll_ready
\* returns exactly that error and polls no handler of higher index.
C8_ErrorReturnedAtOnce ==
    last.op = "poll_ready" =>
        \A j \in FailingPolls(last.trace) :
            /\ last.res = last.trace[j][2]
            /\ \A m \in DOMAIN last.trace :
                   last.trace[m][1] <= last.trace[j][1]

\* Witness C8: poll_ready failed at a handler that is not the last one, with
\* a later handler whose flag is false and which was not polled.
C8_Witness ==
    /\ last.op = "poll_ready" /\ IsErr(last.res)
    /\ \E i \in Handlers :
           /\ i > last.trace[Len(last.trace)][1]
           /\ ~ready[i]

\* C9: while some handler has never reported ready, a poll_ready in which no
\* handler's poll fails returns Pending, and poll_ready has never returned
\* Ready(Ok), however many other handlers are ready.
C9_HeadOfLineBlocking ==
    (\E h \in Handlers : h \notin reported) =>
        /\ gate = "none"
        /\ (last.op = "poll_ready" /\ FailingPolls(last.trace) = {}) =>
               last.res = Pending

\* Witness C9: two handlers, handler 0 has reported ready, handler 1 was
\* polled and has never reported ready.
C9_Witness ==
    /\ N = 2 /\ 0 \in reported /\ 1 \notin reported
    /\ last.op = "poll_ready" /\ lastPoll[1] = Pending

\* C10: with a policy that always selects handler k, once poll_ready has
\* returned Ready(Ok) and a request has been dispatched, a poll_ready polls
\* handler k if its flag is false and polls no other handler, and a call is
\* dispatched only after k was polled again and reported ready: a call right
\* after a dispatched call panics.
C10_ConstPolicyRepollsOnlyK ==
    [][\A k \in Handlers :
          (ConstPolicy(k) /\ gate # "none" /\ sent # <<>>) =>
              /\ last'.op = "poll_ready" =>
                     /\ Polled(last'.trace) \subseteq {k}
                     /\ ~ready[k] => Polled(last'.trace) = {k}
                     /\ \A j \in Handlers \ {k} : ready'[j]
              /\ last'.op = "call" =>
                     IF lastPoll[k] = ReadyOk
                     THEN last'.res = Future(cls[k], last'.req)
                     ELSE last'.res = PanicAssert]_vars

\* Witness C10: under a constant policy over two or more handlers, two
\* requests were dispatched and the latest poll_ready polled exactly k.
C10_Witness ==
    \E k \in Handlers :
        /\ ConstPolicy(k) /\ N >= 2 /\ Len(sent) >= 2
        /\ last.op = "poll_ready"
        /\ last.trace = <<<<k, ReadyOk>>>>
\* Lowest index whose flag is false in the flag vector rdy.
FirstUnready(rdy) ==
    CHOOSE i \in DOMAIN rdy : ~rdy[i] /\ \A k \in DOMAIN rdy : k < i => rdy[k]

\* C14: after construction every flag is false; in every reachable state
\* flag i is true if and only if handler i has been polled and reported ready
\* after its last invocation (or after construction); poll_ready never sets a
\* flag to false and call never sets a flag to true.
C14_FlagIffFreshReady ==
    /\ [](/\ last.op = "new" => \A i \in Handlers : ~ready[i]
          /\ \A i \in Handlers : ready[i] <=> lastPoll[i] = ReadyOk)
    /\ [][/\ last'.op = "poll_ready" => \A i \in Handlers : ready[i] => ready'[i]
          /\ last'.op = "call" => \A i \in Handlers : ready'[i] => ready[i]]_vars

\* Witness C14: after a dispatched call one flag is false and another true.
C14_Witness ==
    /\ last.op = "call" /\ ~IsPanic(last.res)
    /\ \E i, j \in Handlers : ready[i] /\ ~ready[j] /\ lastPoll[j] = NotPolled

\* C15: poll_ready visits handlers in index order and polls exactly the
\* handlers whose flag is false up to the one it stops at; when it returns
\* Pending at handler j the flags it set for lower handlers are kept and no
\* handler above j is polled; a handler whose flag is true is not polled.
C15_PollsUnflaggedInOrder ==
    [][last'.op = "poll_ready" =>
          LET tr == last'.trace IN
          /\ \A a, b \in DOMAIN tr : a < b => tr[a][1] < tr[b][1]
          /\ \A a \in DOMAIN tr : ~ready[tr[a][1]]
          /\ \A i \in Handlers :
                 (~ready[i] /\ \E a \in DOMAIN tr : i < tr[a][1]) =>
                     i \in Polled(tr)
          /\ last'.res = Pending =>
                 /\ tr # <<>>
                 /\ tr[Len(tr)][2] = Pending
                 /\ ready' = [i \in Handlers |->
                                 ready[i] \/
                                 (i \in Polled(tr) /\ i < tr[Len(tr)][1])]]_vars

\* Witness C15: poll_ready returned Pending after flagging a lower handler
\* in the same call.
C15_Witness ==
    /\ last.op = "poll_ready" /\ last.res = Pending
    /\ Len(last.trace) >= 2
    /\ ready[last.trace[1][1]]

\* C16: if the policy returns an in-range index whose flag is false, call
\* panics at the readiness assertion; no handler receives the request and no
\* readiness flag changes.
C16_UnreadyPickPanics ==
    [][(last'.op = "call" /\ last'.idx \in Handlers /\ ~ready[last'.idx]) =>
          /\ last'.res = PanicAssert
          /\ UNCHANGED <<ready, svcLog, cls, sent, lastPoll>>]_vars

\* Witness C16: a call died on the assertion while another handler was
\* flagged ready.
C16_Witness ==
    /\ last.op = "call" /\ last.res = PanicAssert
    /\ \E i \in Handlers : ready[i]

\* C18: a Steer over no handlers is constructed; its poll_ready returns
\* Ready(Ok) without polling anything and every call panics on the index.
C18_EmptySteer ==
    N = 0 =>
        /\ last.op = "poll_ready" => (last.res = ReadyOk /\ last.trace = <<>>)
        /\ last.op = "call" => last.res = PanicIndex
        /\ sent = <<>>

\* Witness C18: a Steer over no handlers reported ready and then a call on
\* it panicked.
C18_Witness == N = 0 /\ gate = "ready" /\ last.op = "call"

\* C20: when poll_ready fails at handler j, flag j stays false and every
\* other flag keeps the value it had just before j was polled, the flags set
\* earlier in the call included; the poll_ready after a failed one starts at
\* the lowest handler whose flag is false and polls no flagged handler.
C20_FailureKeepsFlags ==
    [][last'.op = "poll_ready" =>
          LET tr == last'.trace IN
          /\ IsErr(last'.res) =>
                 /\ tr # <<>>
                 /\ tr[Len(tr)][2] = last'.res
                 /\ ~ready'[tr[Len(tr)][1]]
                 /\ \A i \in Handlers \ {tr[Len(tr)][1]} :
                        ready'[i] = (ready[i] \/ i \in Polled(tr))
          /\ (last.op = "poll_ready" /\ IsErr(last.res)) =>
                 /\ tr # <<>>
                 /\ tr[1][1] = FirstUnready(ready)
                 /\ \A a \in DOMAIN tr : ~ready[tr[a][1]]]_vars

\* Witness C20: poll_ready failed after flagging a lower handler in the same
\* call.
C20_Witness ==
    /\ last.op = "poll_ready" /\ IsErr(last.res)
    /\ Len(last.trace) >= 2
    /\ ready[last.trace[1][1]]
\* Completion time of the wrapped future, deadline of the timer, and the
\* wrapped future's result as the wrapper reports it.
TOp       == rf.response.at
TDeadline == rf.sleep.deadline
OpOutcome == Ready(MapErr(rf.response.res))
Elapsed   == Ready(OpErr(ElapsedError))

\* C11: on any poll at which the wrapped operation has completed, the
\* wrapper completes with the operation's result, also when the timer has
\* fired by that poll, and the timer is not polled on that poll.
C11_OperationWinsTie ==
    (tpoll.polled /\ tpoll.at >= TOp) =>
        /\ tout = OpOutcome
        /\ tpoll.via = "response"
        /\ ~tpoll.sleepPolled

\* Witness C11: the wrapper was polled when the operation had completed and
\* the timer had fired.
C11_Witness ==
    /\ tpoll.polled /\ tpoll.at >= TOp /\ tpoll.at >= TDeadline
    /\ TOp > 0

\* C12 as claimed: the wrapper resolves with the operation's result if
\* T_op <= T_deadline and with the elapsed error if T_op > T_deadline,
\* whenever it is polled.
C12_Original ==
    Resolved =>
        IF TOp <= TDeadline THEN tout = OpOutcome ELSE tout = Elapsed

\* C12 as amended: the wrapper resolves with the operation's result if
\* T_op <= T_deadline; if T_op > T_deadline it resolves with the elapsed
\* error when it is polled at some time t with T_deadline <= t < T_op, and
\* with the operation's result when no poll falls in that interval.
C12_ResolvesByPollTime ==
    Resolved =>
        /\ TOp <= TDeadline => (tpoll.via = "response" /\ tout = OpOutcome)
        /\ TOp > TDeadline =>
               IF \E t \in polledAt : TDeadline <= t /\ t < TOp
               THEN tpoll.via = "sleep" /\ tout = Elapsed
               ELSE tpoll.via = "response" /\ tout = OpOutcome

\* Witness C12: the deadline came before the operation's completion and the
\* wrapper, pending at an earlier poll, resolved with the elapsed error.
C12_Witness ==
    /\ Resolved /\ TOp > TDeadline /\ tpoll.via = "sleep"
    /\ Cardinality(polledAt) >= 2

\* C13 as claimed: no error of the wrapped operation, once translated into
\* the wrapper's error type, equals the elapsed error.
C13_Original ==
    (Resolved /\ tpoll.via = "response" /\ rf.response.res[1] = "Err") =>
        tout # Elapsed

\* C13 as amended: an error of the wrapped operation that is not itself the
\* elapsed error (as produced by a wrapped deadline wrapper) is translated
\* into an error that keeps its value and differs from the elapsed error.
C13_TranslationKeepsError ==
    (/\ Resolved /\ tpoll.via = "response"
     /\ rf.response.res[1] = "Err"
     /\ rf.response.res[2] # ElapsedError) =>
        /\ tout # Elapsed
        /\ tout = Ready(OpErr(ErrorOf(rf.response.res[2][2])))

\* Witness C13: the wrapper resolved with the translated error of an
\* operation whose error type is not the wrapper's, after the deadline.
C13_Witness ==
    /\ Resolved /\ tpoll.via = "response"
    /\ rf.response.res[1] = "Err" /\ rf.response.res[2][1] = "E"
    /\ tpoll.at >= TDeadline

C19_EventuallyReady == <>(last.op = "poll_ready" /\ last.res = ReadyOk)

\* Witness C19: poll_ready returned Ready(Ok) over two or more handlers, none
\* of them ever called, without polling all of them in that call: a flag
\* was set by an earlier call that returned Pending.
C19_Witness ==
    /\ last.op = "poll_ready" /\ last.res = ReadyOk
    /\ N >= 2 /\ sent = <<>>
    /\ last.trace # <<>> /\ Len(last.trace) < N
====
